---- MODULE Spec2Model ----
(***************************************************************************)
(* Model of the acareader viewer shell (src/src/main.ts): the document     *)
(* session (loadPdf), the outline index builder (fetchAndRenderOutline,    *)
(* renderOutlineLevel), the scroll-sync resolver (updateviewarea listener) *)
(* and the outline click listener.  Handlers run to completion and         *)
(* interleave only at their await points; every await of a pdf.js promise  *)
(* is one pc value of the suspended call, settled by its own action.       *)
(***************************************************************************)
EXTENDS Integers, Sequences, FiniteSets, TLC

\* ------------------------------------------------------------------ bounds
MaxLoads == 2      \* loadPdf calls in one behaviour
MaxBuilds == 2     \* fetchAndRenderOutline calls in one behaviour
MaxEntries == 3    \* entries of an outline drawn by InitResolver and InitBuilder

Loads == 1..MaxLoads
Builds == 1..MaxBuilds

\* the resolver's inputs: pages and vertical coordinates of indexed
\* destinations, and the page and offset (currentY) of a scroll location
EntryPages == {0, 2}
Tops == {0, 50, 100}
ScrollPages == {0, 1, 2}
ScrollYs == {0, 10, 70, 200}

\* ------------------------------------------------------- null and values
NoDoc == 0                 \* null PDFDocumentProxy; a handle is named by the load that opened it
NoNode == <<0, 0>>         \* null HTMLElement; an <li> is <<build, entry index>>
NullTop == <<>>            \* top: null; a numeric top n is <<n>>
NegInfinity == <<0, 0>>    \* -Infinity; a finite number n is <<1, n>>
NullMap == [exists |-> FALSE, owner |-> 0, entries |-> <<>>]
NewMap(b) == [exists |-> TRUE, owner |-> b, entries |-> <<>>]

\* `top ?? -Infinity`
OrNegInfinity(top) == IF top = NullTop THEN NegInfinity ELSE <<1, top[1]>>

\* a > b on numbers extended with -Infinity
ExtGT(a, b) == \/ a[1] > b[1]
               \/ a[1] = 1 /\ b[1] = 1 /\ a[2] > b[2]

\* ------------------------------------------------------ outline entries
\* One OutlineNode, in depth-first pre-order with its depth.  dest: "named"
\* (string), "explicit" (array) or "none"; valid: the (resolved) array names
\* a page reference; fit/coord: explicitDest[1].name and its vertical
\* coordinate; page: what getPageIndex answers for the reference.
Entry(depth, dest, valid, fit, coord, page, url) ==
  [depth |-> depth, dest |-> dest, valid |-> valid, fit |-> fit,
   coord |-> coord, page |-> page, url |-> url]

FitModes == {"XYZ", "FitH", "FitBH", "FitV", "FitBV", "Fit", "FitB"}

\* destinationTop of a resolved explicit destination
DestinationTop(item) ==
  IF item.fit = "XYZ" THEN item.coord
  ELSE IF item.fit \in {"FitV", "FitBV"} THEN <<0>>
  ELSE IF item.fit \in {"FitH", "FitBH"} THEN item.coord
  ELSE <<0>>

\* ------------------------------------------------- scroll-sync resolver
\* a mutant: the offset comparison of isAboveOrAt turned around
IsAboveOrAt_Flipped(destInfo, currentPageIndex, currentY) ==
  \/ destInfo.pageIndex < currentPageIndex
  \/ /\ destInfo.pageIndex = currentPageIndex
     /\ destInfo.top # NullTop
     /\ destInfo.top[1] <= currentY

\* isAboveOrAt (lines 157-163)
IsAboveOrAt(destInfo, currentPageIndex, currentY) ==
  \/ destInfo.pageIndex < currentPageIndex
  \/ /\ destInfo.pageIndex = currentPageIndex
     /\ destInfo.top # NullTop
     /\ destInfo.top[1] >= currentY

\* bestMatchElement, bestMatchPage, bestMatchTop before the scan
NoMatch == [element |-> NoNode, page |-> -1, top |-> NegInfinity]

\* a mutant: on the same page the lowest top wins
BetterMatch_LowestTop(best, destInfo) ==
  IF destInfo.pageIndex > best.page
  THEN [element |-> destInfo.node, page |-> destInfo.pageIndex,
        top |-> OrNegInfinity(destInfo.top)]
  ELSE IF /\ destInfo.pageIndex = best.page
          /\ ExtGT(best.top, OrNegInfinity(destInfo.top))
       THEN [best EXCEPT !.element = destInfo.node,
                         !.top = OrNegInfinity(destInfo.top)]
       ELSE best

\* a mutant: on the same page an entry with an equal top replaces the match
BetterMatch_LastOfEqual(best, destInfo) ==
  IF destInfo.pageIndex > best.page
  THEN [element |-> destInfo.node, page |-> destInfo.pageIndex,
        top |-> OrNegInfinity(destInfo.top)]
  ELSE IF /\ destInfo.pageIndex = best.page
          /\ ~ExtGT(best.top, OrNegInfinity(destInfo.top))
       THEN [best EXCEPT !.element = destInfo.node,
                         !.top = OrNegInfinity(destInfo.top)]
       ELSE best

\* the "better match" update made for a qualifying entry
BetterMatch(best, destInfo) ==
  IF destInfo.pageIndex > best.page
  THEN [element |-> destInfo.node, page |-> destInfo.pageIndex,
        top |-> OrNegInfinity(destInfo.top)]
  ELSE IF /\ destInfo.pageIndex = best.page
          /\ ExtGT(OrNegInfinity(destInfo.top), best.top)
       THEN [best EXCEPT !.element = destInfo.node,
                         !.top = OrNegInfinity(destInfo.top)]
       ELSE best

\* outlineDestMap.forEach(...) in insertion order, from entry i on
RECURSIVE ForEachDest(_, _, _, _, _)
ForEachDest(entries, i, best, currentPageIndex, currentY) ==
  IF i > Len(entries) THEN best
  ELSE ForEachDest(entries, i + 1,
         IF IsAboveOrAt(entries[i], currentPageIndex, currentY)
         THEN BetterMatch(best, entries[i]) ELSE best,
         currentPageIndex, currentY)

\* bestMatchElement after the scan
BestMatchElement(entries, currentPageIndex, currentY) ==
  ForEachDest(entries, 1, NoMatch, currentPageIndex, currentY).element

\* "Update highlighting": the new (lastOutlineHighlight, set of nodes with class 'active')
\* a mutant: the `else if` branch that clears the highlight is missing
UpdateHighlight_KeepOnNoMatch(best, last, marks) ==
  IF best # NoNode /\ best # last
  THEN [last |-> best, marks |-> (marks \ {last}) \cup {best}]
  ELSE [last |-> last, marks |-> marks]

\* a mutant: the clearing branch does not test that there is no match
UpdateHighlight_Toggle(best, last, marks) ==
  IF best # NoNode /\ best # last
  THEN [last |-> best, marks |-> (marks \ {last}) \cup {best}]
  ELSE IF last # NoNode
       THEN [last |-> NoNode, marks |-> marks \ {last}]
       ELSE [last |-> last, marks |-> marks]

\* a mutant: a best match is activated only while nothing is active
UpdateHighlight_NoReplace(best, last, marks) ==
  IF best # NoNode /\ last = NoNode
  THEN [last |-> best, marks |-> marks \cup {best}]
  ELSE IF best = NoNode /\ last # NoNode
       THEN [last |-> NoNode, marks |-> marks \ {last}]
       ELSE [last |-> last, marks |-> marks]

UpdateHighlight(best, last, marks) ==
  IF best # NoNode /\ best # last
  THEN [last |-> best, marks |-> (marks \ {last}) \cup {best}]
  ELSE IF best = NoNode /\ last # NoNode
       THEN [last |-> NoNode, marks |-> marks \ {last}]
       ELSE [last |-> last, marks |-> marks]

\* ------------------------------------------------------------------ state
VARIABLES
  initialized,          \* initializePdfJsComponents has run (pdfViewer, pdfLinkService, eventBus set)
  currentPdfDocument,   \* NoDoc or the open handle
  viewerDoc,            \* document held by pdfViewer (setDocument)
  linkDoc,              \* document held by pdfLinkService (setDocument)
  pagesPending,         \* pdfViewer has still to emit 'pagesloaded' for viewerDoc
  docStatus,            \* per handle: "none", "open" (loadingTask resolved), "destroyed" (destroy() called)
  lastOutlineHighlight, \* NoNode or the highlighted <li>
  outlineDestMap,       \* NullMap or the Map, entries in insertion order
  outlineView,          \* children of #outlineView, in order
  activeMarks,          \* the <li> elements whose classList contains 'active'
  errorShown,           \* errorWrapper.hidden = false
  loads,                \* per loadPdf call: where it is suspended
  builds,               \* per fetchAndRenderOutline call: where it is suspended, what it rendered
  navigating,           \* some goToDestination promise has not settled yet
  observing,            \* the handlers' inputs are being recorded in lastEvent (never changes)
  lastEvent             \* the handler that ran last and its input (observation only)

vars == <<initialized, currentPdfDocument, viewerDoc, linkDoc, pagesPending,
          docStatus, lastOutlineHighlight, outlineDestMap, outlineView,
          activeMarks, errorShown, loads, builds, navigating, observing,
          lastEvent>>

\* oldDoc: the document that was open when the call was made; steps: what the
\* call has done so far, in order
UnusedLoad == [pc |-> "unused", src |-> "none", oldDoc |-> NoDoc, steps |-> <<>>]
\* a loadPdf call that has returned: only its outcome is left
Returned(outcome) == [UnusedLoad EXCEPT !.pc = outcome]
\* doc: currentPdfDocument when the build began; rendered: the items whose
\* <li> was appended; listeners: the items whose <a> got the click listener;
\* resolved: the items whose getPageIndex promise resolved; superseded: where
\* the build was suspended when a later loadPdf call began ("no" while none has)
UnusedBuild == [pc |-> "unused", doc |-> NoDoc, outline |-> <<>>, idx |-> 0,
                rendered |-> {}, listeners |-> {}, resolved |-> {},
                superseded |-> "no"]

\* kind: the handler; handled: an updateviewarea listener got past its early
\* returns; p, y: the scroll location; prev: lastOutlineHighlight on entry;
\* repeat: the handler before was a handled scroll with the same location;
\* node: the <li> whose link was clicked
OtherEvent == [kind |-> "other", handled |-> FALSE, p |-> 0, y |-> 0, prev |-> NoNode,
               repeat |-> FALSE, node |-> NoNode]
NoEvent == [kind |-> "none", handled |-> FALSE, p |-> 0, y |-> 0, prev |-> NoNode,
            repeat |-> FALSE, node |-> NoNode]

\* record the handler that runs, when the behaviour is being observed
Observe(event) ==
  /\ observing' = observing
  /\ lastEvent' = IF observing THEN event ELSE NoEvent

Tree(b) == [kind |-> "tree", build |-> b]
NoOutlinePlaceholder == [kind |-> "noOutline", build |-> 0]
ErrorPlaceholder == [kind |-> "error", build |-> 0]

\* the rootUl of build b is a child of #outlineView
Attached(b) == \E k \in 1..Len(outlineView) : outlineView[k] = Tree(b)

\* module-level `let` initialisers (lines 53-59) and the static page
Init ==
  /\ initialized = FALSE
  /\ currentPdfDocument = NoDoc
  /\ viewerDoc = NoDoc
  /\ linkDoc = NoDoc
  /\ pagesPending = FALSE
  /\ docStatus = [d \in Loads |-> "none"]
  /\ lastOutlineHighlight = NoNode
  /\ outlineDestMap = NullMap
  /\ outlineView = <<>>
  /\ activeMarks = {}
  /\ errorShown = FALSE
  /\ loads = [l \in Loads |-> UnusedLoad]
  /\ builds = [b \in Builds |-> UnusedBuild]
  /\ navigating = FALSE
  /\ observing = FALSE
  /\ lastEvent = NoEvent

\* ------------------------------------------------------- initialisation
InitializePdfJsComponents ==
  /\ ~initialized
  /\ initialized' = TRUE
  /\ Observe(OtherEvent)
  /\ UNCHANGED <<currentPdfDocument, viewerDoc, linkDoc, pagesPending, docStatus,
                 lastOutlineHighlight, outlineDestMap, outlineView, activeMarks,
                 errorShown, loads, builds, navigating>>

\* ------------------------------------------------------------- loadPdf
\* clearOutline(), followed by the assignment the caller makes to outlineDestMap
ClearOutline(mapAfter) ==
  /\ outlineView' = <<>>
  /\ lastOutlineHighlight' = NoNode
  /\ outlineDestMap' = mapAfter

HasUnusedLoad == \E l \in Loads : loads[l].pc = "unused"
NextLoad == CHOOSE l \in Loads :
              /\ loads[l].pc = "unused"
              /\ \A k \in Loads : k < l => loads[k].pc # "unused"

\* the builds a new loadPdf call finds suspended have been superseded
Supersede ==
  [b \in Builds |->
     IF builds[b].pc \in {"getOutline", "getDest", "getPage"} /\ builds[b].superseded = "no"
     THEN [builds[b] EXCEPT !.superseded = builds[b].pc]
     ELSE builds[b]]

\* lines 362-373: a File is read first, a URL goes straight to getDocument
BeginSource(src, oldDoc, steps) ==
  IF src = "file"
  THEN [pc |-> "read", src |-> src, oldDoc |-> oldDoc, steps |-> Append(steps, "read")]
  ELSE [pc |-> "open", src |-> src, oldDoc |-> oldDoc, steps |-> Append(steps, "open")]

\* a mutant: the source is read or opened without waiting for the teardown
LoadPdf_NoTeardownWait(src, errorNow) ==
  /\ HasUnusedLoad
  /\ IF ~initialized
     THEN /\ errorShown' = TRUE
          /\ UNCHANGED <<docStatus, lastOutlineHighlight, outlineDestMap,
                         outlineView, loads>>
     ELSE /\ errorShown' = errorNow
          /\ ClearOutline(NullMap)
          /\ docStatus' = docStatus
          /\ loads' = [loads EXCEPT ![NextLoad] =
                         BeginSource(src, currentPdfDocument, <<"clearOutline">>)]
  /\ builds' = IF initialized THEN Supersede ELSE builds
  /\ Observe(OtherEvent)
  /\ UNCHANGED <<initialized, currentPdfDocument, viewerDoc, linkDoc, pagesPending,
                 activeMarks, navigating>>

\* loadPdf(source) up to its first await; errorNow is errorWrapper's state on entry
LoadPdf(src, errorNow) ==
  /\ HasUnusedLoad
  /\ IF ~initialized
     THEN /\ errorShown' = TRUE
          /\ UNCHANGED <<docStatus, lastOutlineHighlight, outlineDestMap,
                         outlineView, loads>>
     ELSE /\ errorShown' = errorNow
          /\ ClearOutline(NullMap)
          /\ IF currentPdfDocument # NoDoc
             THEN /\ docStatus' = [docStatus EXCEPT ![currentPdfDocument] = "destroyed"]
                  /\ loads' = [loads EXCEPT ![NextLoad] =
                                 [pc |-> "destroy", src |-> src,
                                  oldDoc |-> currentPdfDocument,
                                  steps |-> <<"clearOutline", "destroy">>]]
             ELSE /\ docStatus' = docStatus
                  /\ loads' = [loads EXCEPT ![NextLoad] =
                                 BeginSource(src, NoDoc, <<"clearOutline">>)]
  /\ builds' = IF initialized THEN Supersede ELSE builds
  /\ Observe(OtherEvent)
  /\ UNCHANGED <<initialized, currentPdfDocument, viewerDoc, linkDoc, pagesPending,
                 activeMarks, navigating>>

\* `await currentPdfDocument.destroy()` has resolved: lines 357-359, then the source
LoadDestroyDone(l) ==
  /\ loads[l].pc = "destroy"
  /\ currentPdfDocument' = NoDoc
  /\ viewerDoc' = NoDoc
  /\ pagesPending' = FALSE
  /\ linkDoc' = NoDoc
  /\ loads' = [loads EXCEPT ![l] =
                 BeginSource(loads[l].src, loads[l].oldDoc,
                             loads[l].steps \o <<"docNull", "viewerDetach", "linkDetach">>)]
  /\ Observe(OtherEvent)
  /\ UNCHANGED <<initialized, docStatus, lastOutlineHighlight, outlineDestMap,
                 outlineView, activeMarks, errorShown, builds, navigating>>

\* `await source.arrayBuffer()` has settled
LoadReadDone(l, ok) ==
  /\ loads[l].pc = "read"
  /\ IF ok
     THEN /\ loads' = [loads EXCEPT ![l].pc = "open",
                                    ![l].steps = Append(loads[l].steps, "open")]
          /\ UNCHANGED errorShown
     ELSE /\ loads' = [loads EXCEPT ![l] = Returned("failed")]
          /\ errorShown' = TRUE
  /\ Observe(OtherEvent)
  /\ UNCHANGED <<initialized, currentPdfDocument, viewerDoc, linkDoc, pagesPending,
                 docStatus, lastOutlineHighlight, outlineDestMap, outlineView,
                 activeMarks, builds, navigating>>

\* `await loadingTask.promise` has settled
LoadOpenDone(l, ok) ==
  /\ loads[l].pc = "open"
  /\ IF ok
     THEN /\ currentPdfDocument' = l
          /\ docStatus' = [docStatus EXCEPT ![l] = "open"]
          /\ viewerDoc' = l
          /\ pagesPending' = TRUE
          /\ loads' = [loads EXCEPT ![l] = Returned("done")]
          /\ UNCHANGED errorShown
     ELSE /\ errorShown' = TRUE
          /\ currentPdfDocument' = NoDoc
          /\ viewerDoc' = NoDoc
          /\ pagesPending' = FALSE
          /\ loads' = [loads EXCEPT ![l] = Returned("failed")]
          /\ UNCHANGED docStatus
  /\ Observe(OtherEvent)
  /\ UNCHANGED <<initialized, linkDoc, lastOutlineHighlight, outlineDestMap,
                 outlineView, activeMarks, builds, navigating>>

\* ------------------------------------------------ input event listeners
\* a handler that ends after hideError() / showError() / setStatus(); the status
\* text is write-only and is not part of the state
\* a mutant: a rejected input also tears the outline down, as the start of
\* a load does
BannerOnly_ClearsOutline(error) ==
  /\ errorShown' = error
  /\ ClearOutline(NullMap)
  /\ Observe([OtherEvent EXCEPT !.kind = "rejected"])
  /\ UNCHANGED <<initialized, currentPdfDocument, viewerDoc, linkDoc, pagesPending,
                 docStatus, activeMarks, loads, builds, navigating>>

BannerOnly(error) ==
  /\ errorShown' = error
  /\ Observe([OtherEvent EXCEPT !.kind = "rejected"])
  /\ UNCHANGED <<initialized, currentPdfDocument, viewerDoc, linkDoc, pagesPending,
                 docStatus, lastOutlineHighlight, outlineDestMap, outlineView,
                 activeMarks, loads, builds, navigating>>

FileKinds == {"pdf", "other", "nofile"}
FileInputChange(file) ==
  IF file = "pdf" THEN LoadPdf("file", FALSE)
  ELSE IF file = "other" THEN BannerOnly(TRUE)
  ELSE BannerOnly(FALSE)

UrlKinds == {"http", "invalid", "empty"}
UrlButtonClick(url) ==
  IF url = "http" THEN LoadPdf("url", FALSE)
  ELSE IF url = "invalid" THEN BannerOnly(TRUE)
  ELSE BannerOnly(FALSE)

DropKinds == {"pdfFile", "otherFile", "pdfUrl", "otherItem"}
BodyDrop(item) ==
  IF item = "pdfFile" THEN LoadPdf("file", FALSE)
  ELSE IF item = "otherFile" THEN BannerOnly(TRUE)
  ELSE IF item = "pdfUrl" THEN LoadPdf("url", FALSE)
  ELSE BannerOnly(FALSE)

\* ------------------------------------------------ outline index builder
\* outlines getOutline() answers with in the session specification
SessionOutlines ==
  { << Entry(1, "named", TRUE, "XYZ", <<100>>, 0, FALSE),
       Entry(2, "explicit", TRUE, "FitH", <<50>>, 1, FALSE) >> }

\* first index j >= i that is outside the level of depth d starting at i
RECURSIVE SkipLevel(_, _, _)
SkipLevel(items, i, d) ==
  IF i > Len(items) \/ items[i].depth < d THEN i
  ELSE SkipLevel(items, i + 1, d)

\* line 229, evaluated on entry to every level (pdfLinkService is set once and for all)
LevelGuardFails == currentPdfDocument = NoDoc \/ ~outlineDestMap.exists

\* The synchronous run of renderOutlineLevel from item i (pre-order) up to
\* the next await, or to the end of the traversal ("attach").  An item
\* that needs no await is rendered on the spot: no dest, an array that
\* names no page reference, or a call on a null currentPdfDocument, whose
\* TypeError the inner catch swallows.
RECURSIVE RenderFrom(_, _, _)
RenderFrom(items, i, rendered) ==
  IF i > Len(items) THEN [pc |-> "attach", idx |-> i, rendered |-> rendered]
  ELSE LET item == items[i]
           entersLevel == i = 1 \/ item.depth > items[i - 1].depth
       IN IF entersLevel /\ LevelGuardFails
          THEN RenderFrom(items, SkipLevel(items, i, item.depth), rendered)
          ELSE IF item.dest = "named" /\ currentPdfDocument # NoDoc
          THEN [pc |-> "getDest", idx |-> i, rendered |-> rendered]
          ELSE IF item.dest = "explicit" /\ item.valid /\ currentPdfDocument # NoDoc
          THEN [pc |-> "getPage", idx |-> i, rendered |-> rendered]
          ELSE RenderFrom(items, i + 1, rendered \cup {i})

\* a mutant: rootUl is appended to #outlineView before the traversal starts
ContinueBuild_AttachFirst(b, items, done, rendered, listeners, resolved) ==
  LET r == RenderFrom(items, done + 1, rendered)
  IN /\ builds' = [builds EXCEPT ![b] =
                     [pc |-> IF r.pc = "attach" THEN "done" ELSE r.pc,
                      doc |-> builds[b].doc, outline |-> items, idx |-> r.idx,
                      rendered |-> r.rendered, listeners |-> listeners,
                      resolved |-> resolved,
                      superseded |-> builds[b].superseded]]
     /\ outlineView' = IF done = 0 THEN Append(outlineView, Tree(b))
                       ELSE outlineView

\* build b goes on after item `done` is finished (li appended), until it
\* suspends again or appends its rootUl to #outlineView (line 220);
\* listeners and resolved are the sets after item `done`
ContinueBuild(b, items, done, rendered, listeners, resolved) ==
  LET r == RenderFrom(items, done + 1, rendered)
  IN /\ builds' = [builds EXCEPT ![b] =
                     [pc |-> IF r.pc = "attach" THEN "done" ELSE r.pc,
                      doc |-> builds[b].doc, outline |-> items, idx |-> r.idx,
                      rendered |-> r.rendered, listeners |-> listeners,
                      resolved |-> resolved,
                      superseded |-> builds[b].superseded]]
     /\ outlineView' = IF r.pc = "attach" THEN Append(outlineView, Tree(b))
                       ELSE outlineView

\* a mutant: the catch only logs the error and shows nothing
BuildFails_NoPlaceholder(b) ==
  /\ builds' = [builds EXCEPT ![b] =
                  [UnusedBuild EXCEPT !.pc = "error", !.doc = builds[b].doc,
                                      !.superseded = builds[b].superseded]]
  /\ outlineView' = outlineView

\* the catch of fetchAndRenderOutline (lines 222-225)
BuildFails(b) ==
  /\ builds' = [builds EXCEPT ![b] =
                  [UnusedBuild EXCEPT !.pc = "error", !.doc = builds[b].doc,
                                      !.superseded = builds[b].superseded]]
  /\ outlineView' = <<ErrorPlaceholder>>

HasUnusedBuild == \E b \in Builds : builds[b].pc = "unused"
NextBuild == CHOOSE b \in Builds :
               /\ builds[b].pc = "unused"
               /\ \A k \in Builds : k < b => builds[k].pc # "unused"

\* 'pagesloaded' listener, with fetchAndRenderOutline up to `await getOutline()`
PagesLoaded ==
  /\ initialized
  /\ viewerDoc # NoDoc
  /\ pagesPending
  /\ currentPdfDocument # NoDoc => HasUnusedBuild
  /\ pagesPending' = FALSE
  /\ linkDoc' = currentPdfDocument
  /\ IF currentPdfDocument = NoDoc
     THEN UNCHANGED <<lastOutlineHighlight, outlineDestMap, outlineView, builds>>
     ELSE /\ ClearOutline(NewMap(NextBuild))
          /\ builds' = [builds EXCEPT ![NextBuild] =
                          [UnusedBuild EXCEPT !.pc = "getOutline",
                                              !.doc = currentPdfDocument]]
  /\ Observe(OtherEvent)
  /\ UNCHANGED <<initialized, currentPdfDocument, viewerDoc, docStatus,
                 activeMarks, errorShown, loads, navigating>>

\* `await currentPdfDocument.getOutline()` has settled
OutlineResults == {"reject", "none", "outline"}
\* a mutant: an absent or empty outline is rendered like any other, as an
\* empty list
FetchOutlineDone_EmptyTree(b, result, items) ==
  /\ builds[b].pc = "getOutline"
  /\ IF result = "reject" THEN BuildFails(b)
     ELSE IF result = "none"
     THEN /\ builds' = [builds EXCEPT ![b].pc = "noOutline"]
          /\ outlineView' = Append(outlineView, Tree(b))
     ELSE ContinueBuild(b, items, 0, {}, {}, {})
  /\ Observe(OtherEvent)
  /\ UNCHANGED <<initialized, currentPdfDocument, viewerDoc, linkDoc, pagesPending,
                 docStatus, lastOutlineHighlight, outlineDestMap, activeMarks,
                 errorShown, loads, navigating>>

FetchOutlineDone(b, result, items) ==
  /\ builds[b].pc = "getOutline"
  /\ IF result = "reject" THEN BuildFails(b)
     ELSE IF result = "none"
     THEN /\ builds' = [builds EXCEPT ![b].pc = "noOutline"]
          /\ outlineView' = <<NoOutlinePlaceholder>>
     ELSE ContinueBuild(b, items, 0, {}, {}, {})
  /\ Observe(OtherEvent)
  /\ UNCHANGED <<initialized, currentPdfDocument, viewerDoc, linkDoc, pagesPending,
                 docStatus, lastOutlineHighlight, outlineDestMap, activeMarks,
                 errorShown, loads, navigating>>

\* a mutant: an item whose destination does not resolve gets no <li>
DestinationResolved_DropsUnresolved(b, resolved) ==
  /\ builds[b].pc = "getDest"
  /\ LET items == builds[b].outline
         i == builds[b].idx
     IN IF resolved /\ items[i].valid /\ currentPdfDocument # NoDoc
        THEN /\ builds' = [builds EXCEPT ![b].pc = "getPage"]
             /\ UNCHANGED outlineView
        ELSE ContinueBuild(b, items, i, builds[b].rendered, builds[b].listeners,
                           builds[b].resolved)
  /\ Observe(OtherEvent)
  /\ UNCHANGED <<initialized, currentPdfDocument, viewerDoc, linkDoc, pagesPending,
                 docStatus, lastOutlineHighlight, outlineDestMap, activeMarks,
                 errorShown, loads, navigating>>

\* `await currentPdfDocument.getDestination(item.dest)` has settled
DestinationResolved(b, resolved) ==
  /\ builds[b].pc = "getDest"
  /\ LET items == builds[b].outline
         i == builds[b].idx
     IN IF resolved /\ items[i].valid /\ currentPdfDocument # NoDoc
        THEN /\ builds' = [builds EXCEPT ![b].pc = "getPage"]
             /\ UNCHANGED outlineView
        ELSE ContinueBuild(b, items, i, builds[b].rendered \cup {i}, builds[b].listeners,
                           builds[b].resolved)
  /\ Observe(OtherEvent)
  /\ UNCHANGED <<initialized, currentPdfDocument, viewerDoc, linkDoc, pagesPending,
                 docStatus, lastOutlineHighlight, outlineDestMap, activeMarks,
                 errorShown, loads, navigating>>

\* a mutant: storing an entry drops the entries stored before it
InsertDest_Replace(b, i, item) ==
  [outlineDestMap EXCEPT !.entries =
     <<[node |-> <<b, i>>, pageIndex |-> item.page,
        top |-> DestinationTop(item)]>>]

\* a mutant: the entry is put in front of the entries inserted before it, as
\* if a later entry could settle ahead of an earlier one
InsertDest_InFront(b, i, item) ==
  [outlineDestMap EXCEPT !.entries =
     <<[node |-> <<b, i>>, pageIndex |-> item.page,
        top |-> DestinationTop(item)]>> \o @]

\* outlineDestMap.set(li, { pageIndex, top }) on the Map that exists now
InsertDest(b, i, item) ==
  [outlineDestMap EXCEPT !.entries =
     Append(@, [node |-> <<b, i>>, pageIndex |-> item.page,
                top |-> DestinationTop(item)])]

\* a mutant: the children of an item whose page index does not resolve are
\* not visited
PageIndexResolved_SkipsChildren(b, resolved) ==
  /\ builds[b].pc = "getPage"
  /\ LET items == builds[b].outline
         i == builds[b].idx
     IN IF ~resolved
        THEN /\ ContinueBuild(b, items, SkipLevel(items, i + 1, items[i].depth + 1) - 1,
                              builds[b].rendered \cup {i},
                              builds[b].listeners, builds[b].resolved)
             /\ UNCHANGED outlineDestMap
        ELSE IF ~outlineDestMap.exists
        THEN /\ BuildFails(b)
             /\ UNCHANGED outlineDestMap
        ELSE /\ outlineDestMap' = InsertDest(b, i, items[i])
             /\ ContinueBuild(b, items, i, builds[b].rendered \cup {i},
                              builds[b].listeners \cup {i}, builds[b].resolved \cup {i})
  /\ Observe(OtherEvent)
  /\ UNCHANGED <<initialized, currentPdfDocument, viewerDoc, linkDoc, pagesPending,
                 docStatus, lastOutlineHighlight, activeMarks,
                 errorShown, loads, navigating>>

\* a mutant: an item is indexed and made clickable whether or not its page
\* index resolved
PageIndexResolved_IndexesFailures(b, resolved) ==
  /\ builds[b].pc = "getPage"
  /\ LET items == builds[b].outline
         i == builds[b].idx
     IN IF ~outlineDestMap.exists
        THEN /\ BuildFails(b)
             /\ UNCHANGED outlineDestMap
        ELSE /\ outlineDestMap' = InsertDest(b, i, items[i])
             /\ ContinueBuild(b, items, i, builds[b].rendered \cup {i},
                              builds[b].listeners \cup {i},
                              IF resolved THEN builds[b].resolved \cup {i}
                              ELSE builds[b].resolved)
  /\ Observe(OtherEvent)
  /\ UNCHANGED <<initialized, currentPdfDocument, viewerDoc, linkDoc, pagesPending,
                 docStatus, lastOutlineHighlight, activeMarks,
                 errorShown, loads, navigating>>

\* `await currentPdfDocument.getPageIndex(explicitDest[0])` has settled
PageIndexResolved(b, resolved) ==
  /\ builds[b].pc = "getPage"
  /\ LET items == builds[b].outline
         i == builds[b].idx
     IN IF ~resolved
        THEN /\ ContinueBuild(b, items, i, builds[b].rendered \cup {i},
                              builds[b].listeners, builds[b].resolved)
             /\ UNCHANGED outlineDestMap
        ELSE IF ~outlineDestMap.exists
        THEN /\ BuildFails(b)
             /\ UNCHANGED outlineDestMap
        ELSE /\ outlineDestMap' = InsertDest(b, i, items[i])
             /\ ContinueBuild(b, items, i, builds[b].rendered \cup {i},
                              builds[b].listeners \cup {i}, builds[b].resolved \cup {i})
  /\ Observe(OtherEvent)
  /\ UNCHANGED <<initialized, currentPdfDocument, viewerDoc, linkDoc, pagesPending,
                 docStatus, lastOutlineHighlight, activeMarks,
                 errorShown, loads, navigating>>

\* ------------------------------------------------ scroll and click
\* what the listener sees: evt.location, whether the visible page view has
\* a pdfPage, and the (page index, currentY) the viewer geometry yields
ScrollEvents ==
  {[hasLocation |-> TRUE, pageReady |-> TRUE, p |-> p, y |-> y] :
      p \in ScrollPages, y \in ScrollYs}
  \cup {[hasLocation |-> h, pageReady |-> r, p |-> 0, y |-> 0] :
          h \in BOOLEAN, r \in BOOLEAN}

\* the scroll notifications of the session specification
SessionScrollEvents ==
  {[hasLocation |-> TRUE, pageReady |-> TRUE, p |-> p, y |-> y] :
      p \in {0, 1}, y \in {0, 200}}
  \cup {[hasLocation |-> FALSE, pageReady |-> TRUE, p |-> 0, y |-> 0],
        [hasLocation |-> TRUE, pageReady |-> FALSE, p |-> 0, y |-> 0]}

\* a mutant: the early return tests the page view only, not the index and
\* the location
UpdateViewArea_NoEarlyReturn(evt) ==
  /\ initialized
  /\ evt.pageReady => viewerDoc # NoDoc
  /\ LET handled == evt.pageReady
         h == UpdateHighlight(BestMatchElement(outlineDestMap.entries, evt.p, evt.y),
                              lastOutlineHighlight, activeMarks)
     IN /\ lastOutlineHighlight' = IF handled THEN h.last ELSE lastOutlineHighlight
        /\ activeMarks' = IF handled THEN h.marks ELSE activeMarks
        /\ Observe([kind |-> "scroll", handled |-> handled, p |-> evt.p, y |-> evt.y,
                    prev |-> IF handled THEN lastOutlineHighlight ELSE NoNode,
                    repeat |-> /\ handled
                               /\ lastEvent.kind = "scroll" /\ lastEvent.handled
                               /\ lastEvent.p = evt.p /\ lastEvent.y = evt.y,
                    node |-> NoNode])
  /\ UNCHANGED <<initialized, currentPdfDocument, viewerDoc, linkDoc, pagesPending,
                 docStatus, outlineDestMap, outlineView, errorShown,
                 loads, builds, navigating>>

\* 'updateviewarea' listener
UpdateViewArea(evt) ==
  /\ initialized
  /\ evt.pageReady => viewerDoc # NoDoc
  /\ LET handled == outlineDestMap.exists /\ evt.hasLocation /\ evt.pageReady
         h == UpdateHighlight(BestMatchElement(outlineDestMap.entries, evt.p, evt.y),
                              lastOutlineHighlight, activeMarks)
     IN /\ lastOutlineHighlight' = IF handled THEN h.last ELSE lastOutlineHighlight
        /\ activeMarks' = IF handled THEN h.marks ELSE activeMarks
        /\ Observe([kind |-> "scroll", handled |-> handled, p |-> evt.p, y |-> evt.y,
                    prev |-> IF handled THEN lastOutlineHighlight ELSE NoNode,
                    repeat |-> /\ handled
                               /\ lastEvent.kind = "scroll" /\ lastEvent.handled
                               /\ lastEvent.p = evt.p /\ lastEvent.y = evt.y,
                    node |-> NoNode])
  /\ UNCHANGED <<initialized, currentPdfDocument, viewerDoc, linkDoc, pagesPending,
                 docStatus, outlineDestMap, outlineView, errorShown,
                 loads, builds, navigating>>

Nodes == {<<b, i>> : b \in Builds, i \in 1..MaxEntries}

\* a mutant: the click only navigates and leaves the highlight to scroll sync
OutlineClick_NavigateOnly(node) ==
  /\ node[2] \in builds[node[1]].listeners
  /\ Attached(node[1])
  /\ navigating' = TRUE
  /\ Observe([kind |-> "click", handled |-> TRUE, p |-> 0, y |-> 0,
              prev |-> lastOutlineHighlight, repeat |-> FALSE, node |-> node])
  /\ UNCHANGED <<initialized, currentPdfDocument, viewerDoc, linkDoc, pagesPending,
                 docStatus, lastOutlineHighlight, outlineDestMap, outlineView,
                 activeMarks, errorShown, loads, builds>>

\* click listener of an indexed entry's <a>; the entry must be on the page to be clicked
OutlineClick(node) ==
  /\ node[2] \in builds[node[1]].listeners
  /\ Attached(node[1])
  /\ navigating' = TRUE
  /\ activeMarks' = (activeMarks \ {lastOutlineHighlight}) \cup {node}
  /\ lastOutlineHighlight' = node
  /\ Observe([kind |-> "click", handled |-> TRUE, p |-> 0, y |-> 0,
              prev |-> lastOutlineHighlight, repeat |-> FALSE, node |-> node])
  /\ UNCHANGED <<initialized, currentPdfDocument, viewerDoc, linkDoc, pagesPending,
                 docStatus, outlineDestMap, outlineView, errorShown,
                 loads, builds>>

\* a mutant: the .catch callback takes the highlight back
NavigationSettled_ClearsOnError(ok, more) ==
  /\ navigating
  /\ navigating' = more
  /\ lastOutlineHighlight' = IF ok THEN lastOutlineHighlight ELSE NoNode
  /\ activeMarks' = IF ok THEN activeMarks ELSE activeMarks \ {lastOutlineHighlight}
  /\ Observe([OtherEvent EXCEPT !.kind = IF ok THEN "navigated" ELSE "navError",
                                !.prev = lastOutlineHighlight])
  /\ UNCHANGED <<initialized, currentPdfDocument, viewerDoc, linkDoc, pagesPending,
                 docStatus, outlineDestMap, outlineView, errorShown, loads, builds>>

\* a promise of pdfLinkService.goToDestination(item.dest) has settled; a
\* rejection runs the .catch callback, which logs the error.  more: the
\* promise of another click is still pending
NavigationSettled(ok, more) ==
  /\ navigating
  /\ navigating' = more
  /\ Observe([OtherEvent EXCEPT !.kind = IF ok THEN "navigated" ELSE "navError",
                                !.prev = lastOutlineHighlight])
  /\ UNCHANGED <<initialized, currentPdfDocument, viewerDoc, linkDoc, pagesPending,
                 docStatus, lastOutlineHighlight, outlineDestMap, outlineView,
                 activeMarks, errorShown, loads, builds>>

\* ---------------------------------------------------- specifications
Next ==
  \/ InitializePdfJsComponents
  \/ \E file \in FileKinds : FileInputChange(file)
  \/ \E url \in UrlKinds : UrlButtonClick(url)
  \/ \E item \in DropKinds : BodyDrop(item)
  \/ \E l \in Loads : LoadDestroyDone(l)
  \/ \E l \in Loads, ok \in BOOLEAN : LoadReadDone(l, ok)
  \/ \E l \in Loads, ok \in BOOLEAN : LoadOpenDone(l, ok)
  \/ PagesLoaded
  \/ \E b \in Builds, result \in OutlineResults, items \in SessionOutlines :
        FetchOutlineDone(b, result, items)
  \/ \E b \in Builds, resolved \in BOOLEAN : DestinationResolved(b, resolved)
  \/ \E b \in Builds, resolved \in BOOLEAN : PageIndexResolved(b, resolved)
  \/ \E evt \in SessionScrollEvents : UpdateViewArea(evt)
  \/ \E node \in Nodes : OutlineClick(node)
  \/ \E ok, more \in BOOLEAN : NavigationSettled(ok, more)

Spec == Init /\ [][Next]_vars

\* The whole session again, with the last listener or continuation that ran
\* recorded in lastEvent.
InitObserved ==
  /\ initialized = FALSE
  /\ currentPdfDocument = NoDoc
  /\ viewerDoc = NoDoc
  /\ linkDoc = NoDoc
  /\ pagesPending = FALSE
  /\ docStatus = [d \in Loads |-> "none"]
  /\ lastOutlineHighlight = NoNode
  /\ outlineDestMap = NullMap
  /\ outlineView = <<>>
  /\ activeMarks = {}
  /\ errorShown = FALSE
  /\ loads = [l \in Loads |-> UnusedLoad]
  /\ builds = [b \in Builds |-> UnusedBuild]
  /\ navigating = FALSE
  /\ observing = TRUE
  /\ lastEvent = NoEvent

SpecObserved == InitObserved /\ [][Next]_vars

\* The resolver on its own: one document is open and its outline, any flat
\* list of up to MaxEntries positioned destinations, has been built.
NullableTops == {NullTop} \cup {<<t>> : t \in Tops}
ResolverEntries ==
  {Entry(1, "explicit", TRUE, "XYZ", c, p, FALSE) : c \in NullableTops, p \in EntryPages}
ResolverOutlines ==
  UNION {[1..n -> ResolverEntries] : n \in 1..MaxEntries}

IndexOf(b, items) ==
  [i \in 1..Len(items) |->
     [node |-> <<b, i>>, pageIndex |-> items[i].page, top |-> DestinationTop(items[i])]]

InitResolver ==
  \E items \in ResolverOutlines :
    /\ initialized = TRUE
    /\ currentPdfDocument = 1
    /\ viewerDoc = 1
    /\ linkDoc = 1
    /\ pagesPending = FALSE
    /\ docStatus = [d \in Loads |-> IF d = 1 THEN "open" ELSE "none"]
    /\ lastOutlineHighlight = NoNode
    /\ outlineDestMap = [exists |-> TRUE, owner |-> 1, entries |-> IndexOf(1, items)]
    /\ outlineView = <<Tree(1)>>
    /\ activeMarks = {}
    /\ errorShown = FALSE
    /\ loads = [l \in Loads |->
                  IF l = 1 THEN Returned("done") ELSE UnusedLoad]
    /\ builds = [b \in Builds |->
                   IF b = 1 THEN [pc |-> "done", doc |-> 1, outline |-> items,
                                  idx |-> Len(items) + 1,
                                  rendered |-> 1..Len(items),
                                  listeners |-> 1..Len(items),
                                  resolved |-> 1..Len(items),
                                  superseded |-> "no"]
                   ELSE UnusedBuild]
    /\ navigating = FALSE
    /\ observing = TRUE
    /\ lastEvent = NoEvent

\* scroll notifications and clicks; the navigation promises stay pending
NextResolver ==
  \/ \E evt \in ScrollEvents : UpdateViewArea(evt)
  \/ \E node \in Nodes : OutlineClick(node)

SpecResolver == InitResolver /\ [][NextResolver]_vars

\* Click navigation on a built index: clicks, the settlement of their
\* goToDestination promises, and the scroll notifications of a few locations.
NavigationScrollEvents ==
  {[hasLocation |-> TRUE, pageReady |-> TRUE, p |-> p, y |-> 0] : p \in {0, 2}}
  \cup {[hasLocation |-> FALSE, pageReady |-> TRUE, p |-> 0, y |-> 0]}

NextNavigation ==
  \/ \E evt \in NavigationScrollEvents : UpdateViewArea(evt)
  \/ \E node \in Nodes : OutlineClick(node)
  \/ \E ok, more \in BOOLEAN : NavigationSettled(ok, more)

SpecNavigation == InitResolver /\ [][NextNavigation]_vars

\* The outline index builder on its own: one document has just been opened
\* (loadPdf has returned, 'pagesloaded' is still to come) and no other
\* loadPdf call is made.  getOutline() answers with any tree of up to
\* MaxEntries entries, in pre-order, of the kinds below.
BuilderKinds ==
  { Entry(1, "none", FALSE, "Fit", NullTop, 0, FALSE),       \* no dest, no url
    Entry(1, "none", FALSE, "Fit", NullTop, 0, TRUE),        \* external url only
    Entry(1, "named", TRUE, "XYZ", <<100>>, 0, FALSE),       \* named, resolves to [ref, XYZ, _, 100]
    Entry(1, "named", FALSE, "Fit", NullTop, 0, FALSE),      \* named, resolves to no array
    Entry(1, "explicit", FALSE, "Fit", NullTop, 0, FALSE),   \* array without page reference
    Entry(1, "explicit", TRUE, "FitH", NullTop, 2, FALSE) }  \* [ref, FitH, null]

\* the depths of the entries of a tree of n entries, in pre-order
OutlineShapes(n) ==
  { d \in [1..n -> 1..n] :
      /\ d[1] = 1
      /\ \A i \in 2..n : d[i] <= d[i - 1] + 1 }

BuilderOutlines ==
  UNION { { [i \in 1..n |-> [k[i] EXCEPT !.depth = d[i]]] :
              k \in [1..n -> BuilderKinds], d \in OutlineShapes(n) } :
          n \in 1..MaxEntries }

\* scroll notifications of the builder specification
BuilderScrollEvents ==
  {[hasLocation |-> TRUE, pageReady |-> TRUE, p |-> 2, y |-> 0],
   [hasLocation |-> FALSE, pageReady |-> TRUE, p |-> 0, y |-> 0]}

InitBuilder ==
  /\ initialized = TRUE
  /\ currentPdfDocument = 1
  /\ viewerDoc = 1
  /\ linkDoc = NoDoc
  /\ pagesPending = TRUE
  /\ docStatus = [d \in Loads |-> IF d = 1 THEN "open" ELSE "none"]
  /\ lastOutlineHighlight = NoNode
  /\ outlineDestMap = NullMap
  /\ outlineView = <<>>
  /\ activeMarks = {}
  /\ errorShown = FALSE
  /\ loads = [l \in Loads |-> IF l = 1 THEN Returned("done") ELSE UnusedLoad]
  /\ builds = [b \in Builds |-> UnusedBuild]
  /\ navigating = FALSE
  /\ observing = TRUE
  /\ lastEvent = NoEvent

NextBuilder ==
  \/ PagesLoaded
  \/ \E b \in Builds :
        /\ builds[b].pc = "getOutline"
        /\ \/ \E result \in OutlineResults \ {"outline"} : FetchOutlineDone(b, result, <<>>)
           \/ \E items \in BuilderOutlines : FetchOutlineDone(b, "outline", items)
  \/ \E b \in Builds, resolved \in BOOLEAN : DestinationResolved(b, resolved)
  \/ \E b \in Builds, resolved \in BOOLEAN : PageIndexResolved(b, resolved)
  \/ \E evt \in BuilderScrollEvents : UpdateViewArea(evt)

SpecBuilder == InitBuilder /\ [][NextBuilder]_vars

\* The resolver on an index of fit-mode destinations: one document is open
\* and its outline, one or two entries on page 0 with any fit mode of the
\* PDF format ("FitR" is what the switch leaves to its default branch), has
\* been built.
AllFitModes == FitModes \cup {"FitR"}
FitModeEntries ==
  {Entry(1, "explicit", TRUE, f, c, 0, FALSE) : f \in AllFitModes, c \in {NullTop, <<50>>}}
FitModeOutlines ==
  {<<e>> : e \in FitModeEntries} \cup {<<e, f>> : e, f \in FitModeEntries}

FitModeScrollEvents ==
  {[hasLocation |-> TRUE, pageReady |-> TRUE, p |-> p, y |-> y] :
      p \in {0, 1}, y \in {0, 10}}
  \cup {[hasLocation |-> FALSE, pageReady |-> TRUE, p |-> 0, y |-> 0]}

InitFitMode ==
  \E items \in FitModeOutlines :
    /\ initialized = TRUE
    /\ currentPdfDocument = 1
    /\ viewerDoc = 1
    /\ linkDoc = 1
    /\ pagesPending = FALSE
    /\ docStatus = [d \in Loads |-> IF d = 1 THEN "open" ELSE "none"]
    /\ lastOutlineHighlight = NoNode
    /\ outlineDestMap = [exists |-> TRUE, owner |-> 1, entries |-> IndexOf(1, items)]
    /\ outlineView = <<Tree(1)>>
    /\ activeMarks = {}
    /\ errorShown = FALSE
    /\ loads = [l \in Loads |->
                  IF l = 1 THEN Returned("done") ELSE UnusedLoad]
    /\ builds = [b \in Builds |->
                   IF b = 1 THEN [pc |-> "done", doc |-> 1, outline |-> items,
                                  idx |-> Len(items) + 1,
                                  rendered |-> 1..Len(items),
                                  listeners |-> 1..Len(items),
                                  resolved |-> 1..Len(items),
                                  superseded |-> "no"]
                   ELSE UnusedBuild]
    /\ navigating = FALSE
    /\ observing = TRUE
    /\ lastEvent = NoEvent

NextFitMode ==
  \/ \E evt \in FitModeScrollEvents : UpdateViewArea(evt)
  \/ \E node \in Nodes : OutlineClick(node)

SpecFitMode == InitFitMode /\ [][NextFitMode]_vars

\* The builder under the assumption that every request of pdf.js settles:
\* a pending getOutline, getDestination or getPageIndex promise is
\* eventually resolved or rejected, and the continuation of the await runs.
\* Nothing is assumed about 'pagesloaded' or the scroll notifications.  The
\* entries are those of BuilderKinds that differ in the awaits they make.
CompletionKinds ==
  { Entry(1, "none", FALSE, "Fit", NullTop, 0, FALSE),       \* no await
    Entry(1, "named", TRUE, "XYZ", <<100>>, 0, FALSE),       \* getDestination, getPageIndex
    Entry(1, "named", FALSE, "Fit", NullTop, 0, FALSE),      \* getDestination only
    Entry(1, "explicit", TRUE, "FitH", NullTop, 2, FALSE) }  \* getPageIndex only

CompletionOutlines ==
  UNION { { [i \in 1..n |-> [k[i] EXCEPT !.depth = d[i]]] :
              k \in [1..n -> CompletionKinds], d \in OutlineShapes(n) } :
          n \in 1..MaxEntries }

OutlineSettles ==
  \E b \in Builds :
     /\ builds[b].pc = "getOutline"
     /\ \/ \E result \in OutlineResults \ {"outline"} : FetchOutlineDone(b, result, <<>>)
        \/ \E items \in CompletionOutlines : FetchOutlineDone(b, "outline", items)

DestinationSettles ==
  \E b \in Builds, resolved \in BOOLEAN : DestinationResolved(b, resolved)

PageIndexSettles ==
  \E b \in Builds, resolved \in BOOLEAN : PageIndexResolved(b, resolved)

NextCompletion ==
  \/ PagesLoaded
  \/ OutlineSettles
  \/ DestinationSettles
  \/ PageIndexSettles
  \/ UpdateViewArea([hasLocation |-> TRUE, pageReady |-> TRUE, p |-> 2, y |-> 0])

RequestsSettle ==
  /\ WF_vars(OutlineSettles)
  /\ WF_vars(DestinationSettles)
  /\ WF_vars(PageIndexSettles)

SpecCompletion == InitBuilder /\ [][NextCompletion]_vars /\ RequestsSettle

\* ================================================================ claims
Entries == outlineDestMap.entries
EntryIndexes == 1..Len(Entries)
ScrollHandled == lastEvent.kind = "scroll" /\ lastEvent.handled

\* C1 (as claimed): an index never holds a node that a build of another
\* document created, for builds that a new loadPdf call found suspended on a
\* destination resolution (getDestination or getPageIndex).
C1_NoLateEntriesInNewIndex ==
  outlineDestMap.exists =>
    \A k \in EntryIndexes :
      LET a == Entries[k].node[1]
      IN builds[a].superseded \in {"getDest", "getPage"}
           => builds[a].doc = builds[outlineDestMap.owner].doc

\* the qualification rule as the specification words it: an absent offset
\* is no offset >= y
C2_Qualifies(e, p, y) ==
  \/ e.pageIndex < p
  \/ e.pageIndex = p /\ e.top # NullTop /\ e.top[1] >= y

\* offset a is greater than offset b; an absent offset is below every number
C2_OffsetGreater(a, b) == a # NullTop /\ (b = NullTop \/ a[1] > b[1])

C2_Beats(e, f) ==
  \/ e.pageIndex > f.pageIndex
  \/ e.pageIndex = f.pageIndex /\ C2_OffsetGreater(e.top, f.top)

C2_Qualifying(p, y) == {k \in EntryIndexes : C2_Qualifies(Entries[k], p, y)}

C3_ExampleIndex ==
  /\ Len(Entries) = 3
  /\ Entries[1].pageIndex = 0 /\ Entries[1].top = <<100>>
  /\ Entries[2].pageIndex = 0 /\ Entries[2].top = <<50>>
  /\ Entries[3].pageIndex = 2 /\ Entries[3].top = <<0>>

\* C3 (as claimed): with the index (0,100), (0,50), (2,0), a scroll location
\* (page 0, offset 70) activates the (0,50) entry and a location (page 2,
\* offset 10) activates the (2,0) entry.
C3_NearestAtOrAboveExample ==
  ScrollHandled /\ C3_ExampleIndex =>
    /\ lastEvent.p = 0 /\ lastEvent.y = 70 => lastOutlineHighlight = Entries[2].node
    /\ lastEvent.p = 2 /\ lastEvent.y = 10 => lastOutlineHighlight = Entries[3].node

C5_NoMatchClears ==
  (ScrollHandled /\ C2_Qualifying(lastEvent.p, lastEvent.y) = {}) =>
    /\ lastOutlineHighlight = NoNode
    /\ lastEvent.prev \notin activeMarks

\* C5 witness: location (page 0, offset 200) with an entry at (0,100) that was active before
C5_Witness ==
  /\ ScrollHandled
  /\ lastEvent.p = 0 /\ lastEvent.y = 200
  /\ \E k \in EntryIndexes : /\ Entries[k].pageIndex = 0 /\ Entries[k].top = <<100>>
                             /\ lastEvent.prev = Entries[k].node
  /\ lastOutlineHighlight = NoNode
  /\ activeMarks = {}

\* the marked nodes the user can see: those of a tree in the outline view
C6_ShownActive == {n \in activeMarks : Attached(n[1])}

\* C6 (as claimed): at most one node of the trees shown in the outline view
\* carries the 'active' mark, and that node is lastOutlineHighlight.
C6_AtMostOneActive ==
  /\ Cardinality(C6_ShownActive) <= 1
  /\ C6_ShownActive \subseteq {lastOutlineHighlight}

\* C7: a handled scroll notification that follows a handled scroll
\* notification with the same location changes neither the active entry nor
\* the set of marked nodes.
C7_ScrollIdempotent ==
  [][ ( /\ ScrollHandled
        /\ lastEvent'.kind = "scroll" /\ lastEvent'.handled
        /\ lastEvent'.p = lastEvent.p /\ lastEvent'.y = lastEvent.y )
      => /\ lastOutlineHighlight' = lastOutlineHighlight
         /\ activeMarks' = activeMarks ]_vars

\* C7 witness: the handler ran a second time with the same location, and the
\* node the first call activated is still the one active node
C7_Witness ==
  /\ ScrollHandled
  /\ lastEvent.repeat
  /\ lastEvent.prev # NoNode
  /\ lastEvent.prev = lastOutlineHighlight
  /\ activeMarks = {lastOutlineHighlight}

\* C8 (as claimed): every handle that has been opened and not destroyed is
\* the current document, so there is at most one.
C8_OneOpenDocument ==
  {d \in Loads : docStatus[d] = "open"} \subseteq {currentPdfDocument}

\* the teardown of loadPdf, in program order
C9_Teardown == <<"clearOutline", "destroy", "docNull", "viewerDetach", "linkDetach">>

\* C9: a loadPdf call made while a document was open has, by the time it
\* reads or opens the new source, cleared the outline, destroyed the old
\* document, dropped it as current document and detached it from the viewer
\* and the link service, all before the read or open.
C9_TeardownBeforeLoad ==
  \A l \in Loads :
    (loads[l].oldDoc # NoDoc /\ loads[l].pc \in {"read", "open"}) =>
      /\ Len(loads[l].steps) > Len(C9_Teardown)
      /\ SubSeq(loads[l].steps, 1, Len(C9_Teardown)) = C9_Teardown
      /\ docStatus[loads[l].oldDoc] = "destroyed"

\* C9 witness: a call made with a document open has read its file and is opening it
C9_Witness ==
  \E l \in Loads :
    /\ loads[l].oldDoc # NoDoc
    /\ loads[l].pc = "open"
    /\ loads[l].steps = C9_Teardown \o <<"read", "open">>

\* C10 (as claimed): the step in which a loadPdf call fails leaves no
\* current document, the error banner shown, no outline index and no
\* active node.
C10_FailureLeavesNoState ==
  [][ \A l \in Loads :
        (loads[l].pc \in {"read", "open"} /\ loads'[l].pc = "failed") =>
          /\ currentPdfDocument' = NoDoc
          /\ errorShown'
          /\ ~outlineDestMap'.exists
          /\ lastOutlineHighlight' = NoNode ]_vars

\* C11: in the state the click listener of an indexed entry returns in, with
\* the goToDestination promise still pending and no scroll notification
\* handled since, the clicked node is the active entry and carries the mark,
\* and the node that was active before, if another one, does not.
C11_ClickActivates ==
  lastEvent.kind = "click" =>
    /\ navigating
    /\ lastOutlineHighlight = lastEvent.node
    /\ lastEvent.node \in activeMarks
    /\ lastEvent.prev # lastEvent.node => lastEvent.prev \notin activeMarks

\* C11 witness: a click on another entry than the active one
C11_Witness ==
  /\ lastEvent.kind = "click"
  /\ lastEvent.prev # NoNode
  /\ lastEvent.prev # lastEvent.node
  /\ lastOutlineHighlight = lastEvent.node
  /\ activeMarks = {lastEvent.node}
  /\ navigating

\* C12 (as claimed): whenever the outline index exists or a node is the
\* active entry, a document is open and the index, respectively the node,
\* was built for that document.
C12_IndexInsideSession ==
  /\ outlineDestMap.exists =>
        /\ currentPdfDocument # NoDoc
        /\ builds[outlineDestMap.owner].doc = currentPdfDocument
  /\ lastOutlineHighlight # NoNode =>
        /\ currentPdfDocument # NoDoc
        /\ builds[lastOutlineHighlight[1]].doc = currentPdfDocument

\* C13: a build that has run to completion while no other loadPdf call was
\* in flight (the builder specification makes none) has rendered one <li>
\* for every entry of the outline tree, at all depths, whatever the outcome
\* of each entry's destination resolution.
C13_EveryEntryRenders ==
  \A b \in Builds :
    builds[b].pc = "done" =>
      /\ builds[b].rendered = 1..Len(builds[b].outline)
      /\ Cardinality(builds[b].rendered) = Len(builds[b].outline)

\* C13 witness: a completed build of a tree of MaxEntries entries with a
\* nested entry, an entry without destination and an entry whose
\* destination did not resolve
C13_Witness ==
  \E b \in Builds :
    LET items == builds[b].outline
    IN /\ builds[b].pc = "done"
       /\ Len(items) = MaxEntries
       /\ Cardinality(builds[b].rendered) = MaxEntries
       /\ \E i, j, k \in 1..Len(items) :
            /\ items[i].depth > 1
            /\ items[j].dest = "none"
            /\ items[k].dest # "none" /\ k \notin builds[b].resolved

\* the entries of the index that are nodes of build b
C14_Indexed(b) == {i \in 1..MaxEntries : \E k \in EntryIndexes : Entries[k].node = <<b, i>>}

\* C14: after a build has completed (no other loadPdf call in flight), the
\* index holds the node of an entry iff the entry has a destination whose
\* page index resolved, and exactly those nodes have the click listener;
\* entries without destination (with or without external url) or with a
\* destination that did not resolve are rendered and are not in the index.
C14_IndexMembership ==
  \A b \in Builds :
    builds[b].pc = "done" =>
      LET items == builds[b].outline
      IN /\ C14_Indexed(b) = builds[b].resolved
         /\ builds[b].listeners = builds[b].resolved
         /\ Len(Entries) = Cardinality(builds[b].resolved)
         /\ \A i \in 1..Len(items) :
              (items[i].dest = "none" \/ i \notin builds[b].resolved) =>
                 /\ i \in builds[b].rendered
                 /\ i \notin C14_Indexed(b)
                 /\ i \notin builds[b].listeners
         /\ \A i \in builds[b].resolved : items[i].dest # "none" /\ items[i].valid

\* C14 witness: a completed build with an indexed entry, an entry that only
\* carries an external url, and an entry whose page index did not resolve
C14_Witness ==
  \E b \in Builds :
    LET items == builds[b].outline
    IN /\ builds[b].pc = "done"
       /\ \E i, j, k \in 1..Len(items) :
            /\ i \in C14_Indexed(b)
            /\ items[j].dest = "none" /\ items[j].url /\ j \in builds[b].rendered
            /\ items[k].dest = "explicit" /\ items[k].valid /\ k \notin C14_Indexed(b)

\* the entries of build b whose destination resolution failed: a destination
\* is present and no page index came of it
C15_Failed(b) ==
  {i \in 1..Len(builds[b].outline) :
     builds[b].outline[i].dest # "none" /\ i \notin builds[b].resolved}

\* the k-th entry, in document order, among the entries of set S
C15_Nth(S, k) == CHOOSE i \in S : Cardinality({j \in S : j < i}) = k - 1

\* the index the tree yields when the entries of C15_Failed(b) are taken to
\* have no destination: the other destinations, in pre-order
C15_IndexWithout(b) ==
  LET items == builds[b].outline
      kept == {i \in 1..Len(items) : items[i].dest # "none"} \ C15_Failed(b)
  IN [k \in 1..Cardinality(kept) |->
        [node |-> <<b, C15_Nth(kept, k)>>,
         pageIndex |-> items[C15_Nth(kept, k)].page,
         top |-> DestinationTop(items[C15_Nth(kept, k)])]]

\* C15: a build in which the destination resolution of some entry failed
\* (and no other loadPdf call was in flight) completes with every entry
\* rendered, the children and later siblings of the failed entry included,
\* and with the index the same tree yields when the failed entries have no
\* destination.
C15_FailureContained ==
  \A b \in Builds :
    (builds[b].pc = "done" /\ C15_Failed(b) # {}) =>
      /\ builds[b].rendered = 1..Len(builds[b].outline)
      /\ Entries = C15_IndexWithout(b)
      /\ outlineView = <<Tree(b)>>

\* C15 witness: the first entry's resolution failed, its child and its later
\* sibling were indexed
C15_Witness ==
  \E b \in Builds :
    LET items == builds[b].outline
    IN /\ builds[b].pc = "done"
       /\ Len(items) = 3
       /\ items[2].depth = 2 /\ items[3].depth = 1
       /\ C15_Failed(b) = {1}
       /\ builds[b].resolved = {2, 3}
       /\ Len(Entries) = 2

\* C16: once getOutline() has answered null or [] (no other loadPdf call in
\* flight), the outline view holds the 'No outline available.' placeholder
\* and nothing else, the index has no entry, and no entry is active during
\* and after every scroll notification that follows.
C16_NoOutline ==
  \A b \in Builds :
    builds[b].pc = "noOutline" =>
      /\ outlineView = <<NoOutlinePlaceholder>>
      /\ Entries = <<>>
      /\ lastOutlineHighlight = NoNode
      /\ activeMarks = {}

\* C16 witness: a scroll notification was handled on the empty index
C16_Witness ==
  /\ \E b \in Builds : builds[b].pc = "noOutline"
  /\ ScrollHandled
  /\ outlineDestMap.exists
  /\ lastOutlineHighlight = NoNode

\* C17: the step in which the rejection of a goToDestination promise is
\* handled (the .catch callback of the click listener) changes neither the
\* active entry nor the set of marked nodes.
C17_NavigationErrorKeepsActive ==
  [][ lastEvent'.kind = "navError" =>
        /\ lastOutlineHighlight' = lastOutlineHighlight
        /\ activeMarks' = activeMarks ]_vars

\* C17 witness: a navigation failed and the clicked entry is still the active one
C17_Witness ==
  /\ lastEvent.kind = "navError"
  /\ lastOutlineHighlight # NoNode
  /\ lastEvent.prev = lastOutlineHighlight
  /\ activeMarks = {lastOutlineHighlight}

\* C18: right after a scroll notification handled on an existing index, the
\* active entry is the resolver's best match for the location, or none, and
\* carries the mark, whatever was active before (a node a click had
\* activated included); the node that was active before, if another one, no
\* longer carries it.
C18_ScrollSetsBestMatch ==
  ScrollHandled =>
    LET best == BestMatchElement(Entries, lastEvent.p, lastEvent.y)
    IN /\ lastOutlineHighlight = best
       /\ best # NoNode => best \in activeMarks
       /\ lastEvent.prev # best => lastEvent.prev \notin activeMarks

\* C18 witness: in the index (0,100), (0,50), (2,0) the (0,50) entry, which
\* no scroll location selects, had been activated by a click, and the scroll
\* notification replaced it by the best match (0,100)
C18_Witness ==
  /\ ScrollHandled /\ C3_ExampleIndex
  /\ lastEvent.prev = Entries[2].node
  /\ lastOutlineHighlight = Entries[1].node
  /\ activeMarks = {Entries[1].node}

\* C19 (as claimed): a step of an outline build that a later loadPdf call
\* found suspended (the settlement of its getOutline, getDestination or
\* getPageIndex) changes neither the index, nor the active entry, nor the
\* children of the outline view.
C19_SupersededBuildSilent ==
  [][ \A b \in Builds :
        (builds[b].superseded # "no" /\ builds'[b] # builds[b]) =>
          /\ outlineDestMap' = outlineDestMap
          /\ lastOutlineHighlight' = lastOutlineHighlight
          /\ outlineView' = outlineView ]_vars

\* C20 (as claimed): an indexed entry without top coordinate counts as lying
\* at the top of its page, so it qualifies for every scroll location on that
\* page: after a handled scroll notification on the page of such an entry
\* the active entry is an entry of that page (the entry itself when it is
\* the only one of the page).
C20_AbsentOffsetQualifies ==
  ScrollHandled =>
    \A k \in EntryIndexes :
      (Entries[k].pageIndex = lastEvent.p /\ Entries[k].top = NullTop) =>
        \E j \in EntryIndexes :
          /\ Entries[j].node = lastOutlineHighlight
          /\ Entries[j].pageIndex = lastEvent.p

\* C21 (as claimed): an entry whose fit mode has no meaningful vertical
\* coordinate (Fit, FitB, FitV, FitBV or a mode the switch does not know) is
\* indexed with offset 0, and after a handled scroll notification on the
\* entry's own page some entry of that page is active: the entry qualified,
\* so the match is the entry or a better one of the same page.
C21_NoVerticalCoordinate == AllFitModes \ {"XYZ", "FitH", "FitBH"}

C21_FitModeTopOfPage ==
  \A k \in EntryIndexes :
    (/\ Entries[k].node[1] = 1
     /\ builds[1].outline[Entries[k].node[2]].fit \in C21_NoVerticalCoordinate)
    => /\ Entries[k].top = <<0>>
       /\ (ScrollHandled /\ lastEvent.p = Entries[k].pageIndex)
          => \E j \in EntryIndexes :
                /\ Entries[j].node = lastOutlineHighlight
                /\ Entries[j].pageIndex = lastEvent.p

\* C22: entries are resolved one at a time in depth-first pre-order.  The
\* entries a build inserted into the index are in the pre-order of its
\* outline; while the build waits for the resolution of entry idx, exactly
\* the entries before idx have been appended to the tree and nothing of idx
\* or a later entry is in the index or clickable; a finished build has
\* appended every entry.
C22_Own(b) == {k \in EntryIndexes : Entries[k].node[1] = b}

C22_TraversalOrder ==
  \A b \in Builds :
    /\ \A j, k \in C22_Own(b) : j < k => Entries[j].node[2] < Entries[k].node[2]
    /\ builds[b].pc \in {"getDest", "getPage"} =>
         /\ builds[b].rendered = 1..(builds[b].idx - 1)
         /\ builds[b].listeners \subseteq 1..(builds[b].idx - 1)
         /\ \A k \in C22_Own(b) : Entries[k].node[2] < builds[b].idx
    /\ builds[b].pc = "done" => builds[b].rendered = 1..Len(builds[b].outline)

\* a finished build of a nested outline whose parent and child are both in the index
C22_Witness ==
  /\ builds[1].pc = "done"
  /\ Attached(1)
  /\ Len(builds[1].outline) = 3
  /\ \E j, k \in C22_Own(1) :
        /\ j < k
        /\ builds[1].outline[Entries[j].node[2]].depth = 1
        /\ builds[1].outline[Entries[k].node[2]].depth = 2
        /\ builds[1].outline[Entries[k].node[2]].dest = "named"

\* C23: a mapping of the index stays as inserted until the index is torn
\* down.  In every step an existing index either keeps its entries, in the
\* same order and with the same (page index, offset), possibly followed by
\* new ones, or the step is one of a load or of the 'pagesloaded' rebuild;
\* and a step that is no step of a load or of a build (a scroll
\* notification, a click, a navigation settling, a rejected input) leaves
\* the index as it is.
C23_Kept ==
  /\ outlineDestMap'.exists
  /\ outlineDestMap'.owner = outlineDestMap.owner
  /\ Len(outlineDestMap'.entries) >= Len(Entries)
  /\ SubSeq(outlineDestMap'.entries, 1, Len(Entries)) = Entries

C23_IndexImmutable ==
  [][ /\ outlineDestMap.exists =>
           C23_Kept \/ loads' # loads \/ pagesPending' # pagesPending
      /\ UNCHANGED <<loads, builds, pagesPending>> => UNCHANGED outlineDestMap ]_vars

\* an index of two entries, one of them made active by a scroll or a click
C23_Witness ==
  /\ outlineDestMap.exists
  /\ Len(Entries) = 2
  /\ \E k \in EntryIndexes : Entries[k].node = lastOutlineHighlight

\* C24: once 'pagesloaded' has started the build of the open document, and
\* no other load starts and every request settles, the build finishes: the
\* outline view shows the tree with every entry of the outline in it, or the
\* 'no outline' placeholder, or the error placeholder.
C24_Started == \E b \in Builds : builds[b].pc = "getOutline"

C24_Finished ==
  \E b \in Builds :
    \/ /\ builds[b].pc = "done"
       /\ outlineView = <<Tree(b)>>
       /\ builds[b].rendered = 1..Len(builds[b].outline)
    \/ builds[b].pc = "noOutline" /\ outlineView = <<NoOutlinePlaceholder>>
    \/ builds[b].pc = "error" /\ outlineView = <<ErrorPlaceholder>>

C24_BuildCompletes == C24_Started ~> C24_Finished

\* a build that went through three destination resolutions and attached its tree
C24_Witness ==
  /\ C24_Finished
  /\ builds[1].pc = "done"
  /\ Len(builds[1].outline) = 3
  /\ \A i \in 1..3 : builds[1].outline[i].dest = "named"
  /\ builds[1].resolved = {2}

\* C25 (as claimed): whenever lastOutlineHighlight is not null, the index
\* exists and has that node as a key.
C25_ActiveInIndex ==
  lastOutlineHighlight # NoNode =>
    /\ outlineDestMap.exists
    /\ \E k \in EntryIndexes : Entries[k].node = lastOutlineHighlight

\* C26: after a handled scroll notification, no qualifying entry with the
\* page index and the offset of the active entry (two absent offsets being
\* equal) comes before the active entry in the insertion order of the index.
C26_TieBreakByOrder ==
  ScrollHandled =>
    \A k \in EntryIndexes :
      Entries[k].node = lastOutlineHighlight =>
        \A j \in C2_Qualifying(lastEvent.p, lastEvent.y) :
          (/\ Entries[j].pageIndex = Entries[k].pageIndex
           /\ Entries[j].top = Entries[k].top) => k <= j

\* a tie of three: all entries qualify with the same page and an absent
\* offset, and the first one inserted is the active entry
C26_Witness ==
  /\ ScrollHandled
  /\ Len(Entries) = 3
  /\ Entries[1].node = lastOutlineHighlight
  /\ \A j \in EntryIndexes :
        /\ j \in C2_Qualifying(lastEvent.p, lastEvent.y)
        /\ Entries[j].pageIndex = Entries[1].pageIndex
        /\ Entries[j].top = Entries[1].top
  /\ Entries[1].top = NullTop

\* C27: a tree is in the outline view only if the traversal that built it
\* has run to its end, and every click is on an entry of a finished build;
\* the witness is a scroll notification that marked an entry of a tree not
\* yet attached.
C27_NoPartialTree ==
  /\ [](\A b \in Builds : Attached(b) => builds[b].pc = "done")
  /\ [][\A node \in Nodes : OutlineClick(node) => builds[node[1]].pc = "done"]_vars

\* during a build: the active, marked entry is in the index but not on the page
C27_Witness ==
  \E b \in Builds :
    /\ builds[b].pc \in {"getDest", "getPage"}
    /\ ~Attached(b)
    /\ lastOutlineHighlight[1] = b
    /\ lastOutlineHighlight \in activeMarks
    /\ \E k \in EntryIndexes : Entries[k].node = lastOutlineHighlight

\* C28: a step of the scroll listener taken while no index exists, or for a
\* notification without location, leaves lastOutlineHighlight and the set of
\* marked nodes as they were.
C28_ScrollWithoutIndexNoOp ==
  [][ \A evt \in SessionScrollEvents :
        (UpdateViewArea(evt) /\ (~outlineDestMap.exists \/ ~evt.hasLocation))
        => UNCHANGED <<lastOutlineHighlight, activeMarks>> ]_vars

\* a notification without location was the last thing to happen, with an
\* index of two entries, one of them active; it was not handled
C28_Witness ==
  /\ lastEvent.kind = "scroll"
  /\ ~lastEvent.handled
  /\ outlineDestMap.exists
  /\ Len(Entries) = 2
  /\ lastOutlineHighlight = Entries[2].node
  /\ lastOutlineHighlight \in activeMarks

\* C29: a step of the file input, the URL button or the drop listener for a
\* non-PDF file, no file, a URL that is empty or not http(s), or a dropped
\* item that is neither, starts no load and no build and leaves the current
\* document, the viewer's and link service's document, the index, the
\* outline view, the active entry and the marks as they were.
C29_RejectedInput ==
  \/ \E file \in FileKinds \ {"pdf"} : FileInputChange(file)
  \/ \E url \in UrlKinds \ {"http"} : UrlButtonClick(url)
  \/ \E item \in DropKinds \ {"pdfFile", "pdfUrl"} : BodyDrop(item)

C29_RejectedInputNoLoad ==
  [][ C29_RejectedInput =>
        UNCHANGED <<currentPdfDocument, viewerDoc, linkDoc, pagesPending, docStatus,
                    outlineDestMap, outlineView, lastOutlineHighlight, activeMarks,
                    loads, builds>> ]_vars

\* an input was rejected with the error banner while a document was open
\* with an index of two entries and an active entry
C29_Witness ==
  /\ lastEvent.kind = "rejected"
  /\ errorShown
  /\ currentPdfDocument # NoDoc
  /\ outlineDestMap.exists
  /\ Len(Entries) = 2
  /\ lastOutlineHighlight = Entries[1].node

====
